---- MODULE Spec2Model ----
(***************************************************************************)
(* MultiSymbolProvider (minidump-processor/src/symbols.rs): an ordered     *)
(* list of boxed SymbolProvider objects behind the SymbolProvider trait.   *)
(* The concrete sources (breakpad_symbols::Symbolizer and friends) live    *)
(* outside this file; they are modelled here as leaf sources that follow   *)
(* the trait's contract and whose per-call outcome is an input.            *)
(***************************************************************************)
EXTENDS Integers, Sequences, FiniteSets, TLC

\* ---------------------------------------------------------------- bounds
NumLeaves == 2
NumModules == 2
MaxNested == 1

Leaves == 1..NumLeaves
Modules == {<<"module", i>> : i \in 1..NumModules}

VARIABLES
    providers,   \* self.providers of the resolver the pipeline holds
    pending,     \* self.providers of a second combinator, not yet boxed
    created,     \* number of leaf sources constructed so far
    nested,      \* number of combinators boxed and added as a source
    stats,       \* stats[l][m]: what leaf l has recorded for module m
    op,          \* the last operation performed
    module,      \* its module argument
    beh,         \* beh[l]: how leaf l answers during that operation
    ret,         \* fill_symbol's / walk_frame's return value
    statsRet,    \* stats()'s return value
    calls,       \* leaf invocations made by that operation, in order
    frame,       \* the FrameSymbolizer handed to fill_symbol, afterwards
    walker,      \* the FrameWalker handed to walk_frame, afterwards
    reported,    \* module keys some stats() call has reported as loaded
    \* --- the stats() call and the worker call of the concurrent setting
    spc, sidx, sresult, snaps, wpc, widx, wbest

vars == <<providers, pending, created, nested, stats, op, module, beh, ret,
          statsRet, calls, frame, walker, reported,
          spc, sidx, sresult, snaps, wpc, widx, wbest>>

concVars == <<spc, sidx, sresult, snaps, wpc, widx, wbest>>

\* ------------------------------------------------------------ data model
Leaf(l) == [kind |-> "leaf", id |-> l, providers |-> <<>>]
Multi(ps) == [kind |-> "multi", id |-> 0, providers |-> ps]

EmptyMap == [k \in {} |-> 0]

\* SymbolStats of leaf l for an acquisition that ended `kind`.
SymbolStats(l, kind) ==
    [symbol_url |-> IF kind = "notfound" THEN 0 ELSE l,
     loaded_symbols |-> kind = "loaded",
     corrupt_symbols |-> kind = "corrupt"]

FreshFrame == [function |-> 0, source_line |-> 0]
FreshWalker == [cfa |-> 0, ra |-> 0]

NoSymbols == [l \in Leaves |-> [m \in Modules |-> "absent"]]
Idle == [acq |-> "absent", res |-> "idle"]
NoBehaviour == [l \in Leaves |-> Idle]

FillBehaviours ==
    {[acq |-> "notfound", res |-> "err"], [acq |-> "corrupt", res |-> "err"],
     [acq |-> "loaded", res |-> "err"], [acq |-> "loaded", res |-> "fn"],
     [acq |-> "loaded", res |-> "line"], [acq |-> "loaded", res |-> "both"]}

WalkBehaviours ==
    {[acq |-> "notfound", res |-> "none"], [acq |-> "corrupt", res |-> "none"],
     [acq |-> "loaded", res |-> "none"], [acq |-> "loaded", res |-> "some"]}

\* The context one call threads through the sources it invokes.
Ctx(st) == [stats |-> st, frame |-> FreshFrame, walker |-> FreshWalker,
            calls |-> <<>>, ret |-> "none"]

\* --------------------------------------------------------- leaf sources
\* A source looks a module up once and keeps what it found.
LeafAcquire(l, m, b, st) ==
    IF st[l][m] = "absent" THEN [st EXCEPT ![l][m] = b.acq] ELSE st

LeafFillSymbol(l, m, b, c) ==
    LET r == IF b.res \in {"fn", "line", "both"} THEN "Ok" ELSE "Err"
        c1 == [c EXCEPT !.stats = LeafAcquire(l, m, b, c.stats),
                        !.calls = Append(@, [id |-> l, ret |-> r]),
                        !.ret = r]
    IN  CASE b.res = "fn" -> [c1 EXCEPT !.frame.function = l]
          [] b.res = "line" -> [c1 EXCEPT !.frame.source_line = l]
          [] b.res = "both" -> [c1 EXCEPT !.frame.function = l,
                                          !.frame.source_line = l]
          [] OTHER -> c1

LeafWalkFrame(l, m, b, c) ==
    LET r == IF b.res = "some" THEN "Some" ELSE "None"
        c1 == [c EXCEPT !.stats = LeafAcquire(l, m, b, c.stats),
                        !.calls = Append(@, [id |-> l, ret |-> r]),
                        !.ret = r]
    IN  IF b.res = "some" THEN [c1 EXCEPT !.walker = [cfa |-> l, ra |-> l]]
        ELSE c1

LeafStats(l, st) ==
    [k \in {m \in Modules : st[l][m] # "absent"} |-> SymbolStats(l, st[l][k])]

\* ------------------------------------------------- MultiSymbolProvider
RECURSIVE FillSymbol(_, _, _, _), FillLoop(_, _, _, _, _, _)
RECURSIVE ProviderFillSymbol(_, _, _, _)
RECURSIVE WalkFrame(_, _, _, _), WalkLoop(_, _, _, _, _)
RECURSIVE ProviderWalkFrame(_, _, _, _)
RECURSIVE Stats(_, _), StatsLoop(_, _, _, _), ProviderStats(_, _)

\* p.fill_symbol(module, frame) through Box<dyn SymbolProvider>
ProviderFillSymbol(p, m, b, c) ==
    IF p.kind = "leaf" THEN LeafFillSymbol(p.id, m, b[p.id], c)
    ELSE FillSymbol(p.providers, m, b, c)

ProviderWalkFrame(p, m, b, c) ==
    IF p.kind = "leaf" THEN LeafWalkFrame(p.id, m, b[p.id], c)
    ELSE WalkFrame(p.providers, m, b, c)

ProviderStats(p, st) ==
    IF p.kind = "leaf" THEN LeafStats(p.id, st) ELSE Stats(p.providers, st)

\* let mut best_result = Err(FillSymbolError {});
InitBestLenient == "Ok"
InitBest == "Err"

\* Result::or
ResultOrLast(best, new) == new
ResultOr(best, new) == IF best = "Ok" THEN best ELSE new

FillLoop(ps, i, m, b, best, c) ==
    IF i > Len(ps) THEN [c EXCEPT !.ret = best]
    ELSE LET r == ProviderFillSymbol(ps[i], m, b, c)
         IN  FillLoop(ps, i + 1, m, b, ResultOr(best, r.ret), r)

RECURSIVE FillLoopShort(_, _, _, _, _, _)
FillLoopShort(ps, i, m, b, best, c) ==
    IF i > Len(ps) \/ best = "Ok" THEN [c EXCEPT !.ret = best]
    ELSE LET r == ProviderFillSymbol(ps[i], m, b, c)
         IN  FillLoopShort(ps, i + 1, m, b, ResultOr(best, r.ret), r)

RECURSIVE FillLoopRev(_, _, _, _, _, _)
FillLoopRev(ps, i, m, b, best, c) ==
    IF i < 1 THEN [c EXCEPT !.ret = best]
    ELSE LET r == ProviderFillSymbol(ps[i], m, b, c)
         IN  FillLoopRev(ps, i - 1, m, b, ResultOr(best, r.ret), r)

FillSymbolReversed(ps, m, b, c) == FillLoopRev(ps, Len(ps), m, b, InitBest, c)
FillSymbolShortCircuit(ps, m, b, c) == FillLoopShort(ps, 1, m, b, InitBest, c)
FillSymbolSkipFirst(ps, m, b, c) == FillLoop(ps, 2, m, b, InitBest, c)
FillSymbol(ps, m, b, c) == FillLoop(ps, 1, m, b, InitBest, c)

WalkLoop(ps, i, m, b, c) ==
    IF i > Len(ps) THEN [c EXCEPT !.ret = "None"]
    ELSE LET r == ProviderWalkFrame(ps[i], m, b, c)
         IN  IF r.ret = "Some" THEN r ELSE WalkLoop(ps, i + 1, m, b, r)

RECURSIVE WalkLoopAll(_, _, _, _, _, _)
WalkLoopAll(ps, i, m, b, found, c) ==
    IF i > Len(ps) THEN [c EXCEPT !.ret = found]
    ELSE LET r == ProviderWalkFrame(ps[i], m, b, c)
         IN  WalkLoopAll(ps, i + 1, m, b,
                         IF found = "Some" THEN found ELSE r.ret, r)

WalkFrameNoStop(ps, m, b, c) == WalkLoopAll(ps, 1, m, b, "None", c)
WalkFrameFirstOnly(ps, m, b, c) ==
    IF ps = <<>> THEN [c EXCEPT !.ret = "None"]
    ELSE ProviderWalkFrame(ps[1], m, b, c)
WalkFrame(ps, m, b, c) == WalkLoop(ps, 1, m, b, c)

\* HashMap::extend: an entry of `other` replaces the entry with the same key
ExtendKeepFirst(result, other) ==
    [k \in DOMAIN result \cup DOMAIN other |->
        IF k \in DOMAIN result THEN result[k] ELSE other[k]]
Extend(result, other) ==
    [k \in DOMAIN result \cup DOMAIN other |->
        IF k \in DOMAIN other THEN other[k] ELSE result[k]]

StatsLoop(ps, i, st, result) ==
    IF i > Len(ps) THEN result
    ELSE StatsLoop(ps, i + 1, st, Extend(result, ProviderStats(ps[i], st)))

Stats(ps, st) == StatsLoop(ps, 1, st, EmptyMap)

\* ------------------------------------------------------------- helpers
RECURSIVE Flatten(_)
Flatten(ps) ==
    IF ps = <<>> THEN <<>>
    ELSE (IF Head(ps).kind = "leaf" THEN <<Head(ps).id>>
          ELSE Flatten(Head(ps).providers)) \o Flatten(Tail(ps))

Flat == Flatten(providers)
Registered == {Flat[i] : i \in 1..Len(Flat)}
CallIds == [i \in 1..Len(calls) |-> calls[i].id]
LoadedKeys(map) == {k \in DOMAIN map : map[k].loaded_symbols}

\* The answers the sources of the resolver can give for module m: a source
\* that has looked m up answers from what it found, and only a source with
\* loaded symbols can symbolize or unwind.
Answers(B, m) ==
    LET reg == Registered
        choice == [l \in Leaves |->
                     IF l \in reg
                     THEN {x \in B : stats[l][m] \in {"absent", x.acq}}
                     ELSE {Idle}]
    IN  {b \in [Leaves -> B \cup {Idle}] : \A l \in Leaves : b[l] \in choice[l]}

\* ------------------------------------------------------------- actions
Init ==
    /\ providers = <<>>
    /\ pending = <<>>
    /\ created = 0
    /\ nested = 0
    /\ stats = NoSymbols
    /\ op = "new"
    /\ module = <<"module", 1>>
    /\ beh = NoBehaviour
    /\ ret = "none"
    /\ statsRet = EmptyMap
    /\ calls = <<>>
    /\ frame = FreshFrame
    /\ walker = FreshWalker
    /\ reported = {}
    /\ spc = "idle"
    /\ sidx = 1
    /\ sresult = EmptyMap
    /\ snaps = {}
    /\ wpc = "idle"
    /\ widx = 1
    /\ wbest = "none"

Observed(o, m, b, c, sr) ==
    /\ op' = o
    /\ module' = m
    /\ beh' = b
    /\ stats' = c.stats
    /\ ret' = c.ret
    /\ calls' = c.calls
    /\ frame' = c.frame
    /\ walker' = c.walker
    /\ statsRet' = sr

\* add takes &mut self: no call on the resolver is in flight
Quiescent == spc = "idle" /\ wpc = "idle"

\* providers.add(Box::new(leaf))
Add ==
    /\ Quiescent
    /\ created < NumLeaves
    /\ created' = created + 1
    /\ providers' = Append(providers, Leaf(created + 1))
    /\ Observed("add", module, NoBehaviour, Ctx(stats), EmptyMap)
    /\ UNCHANGED <<pending, nested, reported>>
    /\ UNCHANGED concVars

\* inner.add(Box::new(leaf)) on the combinator that is not boxed yet
AddInner ==
    /\ Quiescent
    /\ created < NumLeaves
    /\ nested < MaxNested
    /\ created' = created + 1
    /\ pending' = Append(pending, Leaf(created + 1))
    /\ Observed("add", module, NoBehaviour, Ctx(stats), EmptyMap)
    /\ UNCHANGED <<providers, nested, reported>>
    /\ UNCHANGED concVars

\* providers.add(Box::new(inner)); a new() combinator takes inner's place
AddNested ==
    /\ Quiescent
    /\ nested < MaxNested
    /\ nested' = nested + 1
    /\ providers' = Append(providers, Multi(pending))
    /\ pending' = <<>>
    /\ Observed("add", module, NoBehaviour, Ctx(stats), EmptyMap)
    /\ UNCHANGED <<created, reported>>
    /\ UNCHANGED concVars

FillSymbolCall ==
    /\ \E m \in Modules : \E b \in Answers(FillBehaviours, m) :
          LET c == FillSymbol(providers, m, b, Ctx(stats))
          IN  Observed("fill_symbol", m, b, c, EmptyMap)
    /\ UNCHANGED <<providers, pending, created, nested, reported>>
    /\ UNCHANGED concVars

WalkFrameCall ==
    /\ \E m \in Modules : \E b \in Answers(WalkBehaviours, m) :
          LET c == WalkFrame(providers, m, b, Ctx(stats))
          IN  Observed("walk_frame", m, b, c, EmptyMap)
    /\ UNCHANGED <<providers, pending, created, nested, reported>>
    /\ UNCHANGED concVars

StatsCall ==
    /\ LET result == Stats(providers, stats)
       IN  /\ Observed("stats", module, NoBehaviour, Ctx(stats), result)
           /\ reported' = reported \cup LoadedKeys(result)
    /\ UNCHANGED <<providers, pending, created, nested>>
    /\ UNCHANGED concVars

Next == Add \/ AddInner \/ AddNested \/ FillSymbolCall \/ WalkFrameCall \/ StatsCall

Spec == Init /\ [][Next]_vars

\* ------------------------------------------- calls that overlap in time
\* The setting of the concurrency contract: one thread is inside stats()
\* while a worker thread is inside fill_symbol or walk_frame on the same
\* resolver.  Each call of a source is one step (a source synchronises its
\* own state); the combinator's loops take no lock, so the steps of the two
\* loops interleave.  The resolver here holds leaf sources only.
Merged == Stats(providers, stats)

StatsBegin ==
    /\ spc = "idle"
    /\ providers # <<>>
    /\ spc' = "loop"
    /\ sidx' = 1
    /\ sresult' = EmptyMap
    /\ snaps' = {Merged}
    /\ statsRet' = EmptyMap
    /\ UNCHANGED <<providers, pending, created, nested, stats, op, module, beh,
                   ret, calls, frame, walker, reported, wpc, widx, wbest>>

StatsStep ==
    /\ spc = "loop"
    /\ sidx <= Len(providers)
    /\ sresult' = Extend(sresult, ProviderStats(providers[sidx], stats))
    /\ sidx' = sidx + 1
    /\ UNCHANGED <<providers, pending, created, nested, stats, op, module, beh,
                   ret, statsRet, calls, frame, walker, reported, spc, snaps,
                   wpc, widx, wbest>>

StatsReturn ==
    /\ spc = "loop"
    /\ sidx > Len(providers)
    /\ statsRet' = sresult
    /\ spc' = "idle"
    /\ sidx' = 1
    /\ sresult' = EmptyMap
    /\ snaps' = {}
    /\ UNCHANGED <<providers, pending, created, nested, stats, op, module, beh,
                   ret, calls, frame, walker, reported, wpc, widx, wbest>>

WorkerCtx == [stats |-> stats, frame |-> frame, walker |-> walker,
              calls |-> calls, ret |-> ret]

\* What the stats() call in flight could have seen at this instant.
Seen(st) == IF spc = "loop" THEN snaps \cup {Stats(providers, st)} ELSE snaps

WorkerBegin(o, B) ==
    /\ wpc = "idle"
    /\ providers # <<>>
    /\ \E m \in Modules : \E b \in Answers(B, m) : module' = m /\ beh' = b
    /\ wpc' = o
    /\ widx' = 1
    /\ wbest' = IF o = "fill_symbol" THEN InitBest ELSE "none"
    /\ ret' = "none"
    /\ calls' = <<>>
    /\ frame' = FreshFrame
    /\ walker' = FreshWalker
    /\ UNCHANGED <<providers, pending, created, nested, stats, op, statsRet,
                   reported, spc, sidx, sresult, snaps>>

FillBegin == WorkerBegin("fill_symbol", FillBehaviours)

FillStep ==
    /\ wpc = "fill_symbol"
    /\ widx <= Len(providers)
    /\ LET r == ProviderFillSymbol(providers[widx], module, beh, WorkerCtx)
       IN  /\ stats' = r.stats
           /\ calls' = r.calls
           /\ frame' = r.frame
           /\ wbest' = ResultOr(wbest, r.ret)
           /\ snaps' = Seen(r.stats)
    /\ widx' = widx + 1
    /\ UNCHANGED <<providers, pending, created, nested, op, module, beh, ret,
                   statsRet, walker, reported, spc, sidx, sresult, wpc>>

FillReturn ==
    /\ wpc = "fill_symbol"
    /\ widx > Len(providers)
    /\ ret' = wbest
    /\ wpc' = "idle"
    /\ widx' = 1
    /\ wbest' = "none"
    /\ beh' = NoBehaviour
    /\ calls' = <<>>
    /\ UNCHANGED <<providers, pending, created, nested, stats, op, module,
                   statsRet, frame, walker, reported, spc, sidx, sresult,
                   snaps>>

WalkBegin == WorkerBegin("walk_frame", WalkBehaviours)

WalkStep ==
    /\ wpc = "walk_frame"
    /\ widx <= Len(providers)
    /\ LET r == ProviderWalkFrame(providers[widx], module, beh, WorkerCtx)
       IN  /\ stats' = r.stats
           /\ walker' = r.walker
           /\ snaps' = Seen(r.stats)
           /\ IF r.ret = "Some"
              THEN /\ ret' = "Some" /\ wpc' = "idle" /\ widx' = 1
                   /\ beh' = NoBehaviour /\ calls' = <<>>
              ELSE /\ ret' = ret /\ wpc' = wpc /\ widx' = widx + 1
                   /\ beh' = beh /\ calls' = r.calls
    /\ UNCHANGED <<providers, pending, created, nested, op, module, statsRet,
                   frame, reported, spc, sidx, sresult, wbest>>

WalkReturn ==
    /\ wpc = "walk_frame"
    /\ widx > Len(providers)
    /\ ret' = "None"
    /\ wpc' = "idle"
    /\ widx' = 1
    /\ beh' = NoBehaviour
    /\ calls' = <<>>
    /\ UNCHANGED <<providers, pending, created, nested, stats, op, module,
                   statsRet, frame, walker, reported, spc, sidx, sresult,
                   snaps, wbest>>

NextConc ==
    \/ Add
    \/ StatsBegin \/ StatsStep \/ StatsReturn
    \/ FillBegin \/ FillStep \/ FillReturn
    \/ WalkBegin \/ WalkStep \/ WalkReturn

SpecConc == Init /\ [][NextConc]_vars

\* ------------------------------------------------------------- claims
\* The leaf sources of the resolver in registration order; for a resolver
\* whose sources are all leaves these are its registered sources.
FlatNodes(ps) == [i \in 1..Len(Flatten(ps)) |-> Leaf(Flatten(ps)[i])]
FillOk(l) == beh[l].res \in {"fn", "line", "both"}
WalkSome(l) == beh[l].res = "some"
Writers(field) == {i \in 1..Len(Flat) : beh[Flat[i]].res \in {field, "both"}}
Min(S) == CHOOSE x \in S : \A y \in S : x <= y
Max(S) == CHOOSE x \in S : \A y \in S : x >= y
FirstWriter(field) == IF Writers(field) = {} THEN 0 ELSE Flat[Min(Writers(field))]
LastWriter(field) == IF Writers(field) = {} THEN 0 ELSE Flat[Max(Writers(field))]
Reporters(k) == {i \in 1..Len(Flat) : k \in DOMAIN LeafStats(Flat[i], stats)}
TwoLeaves == providers = <<Leaf(1), Leaf(2)>>

\* C1: with at least one source registered, fill_symbol returns Ok if and
\* only if at least one source answered Ok, wherever that source stands in
\* the list; it returns FillSymbolError exactly when every source did.
C1_FillOkIffAnySourceOk ==
    (op = "fill_symbol" /\ Flat # <<>>) =>
        /\ ret \in {"Ok", "Err"}
        /\ ret = "Ok" <=> \E i \in 1..Len(Flat) : FillOk(Flat[i])

C1_Witness ==
    /\ op = "fill_symbol" /\ TwoLeaves
    /\ FillOk(1) /\ ~FillOk(2) /\ ret = "Ok"

\* C2: one fill_symbol call invokes every registered source exactly once,
\* in registration order, whatever the earlier sources answered.
C2_FillInvokesEverySourceOnce ==
    op = "fill_symbol" => CallIds = Flat

C2_Witness ==
    /\ op = "fill_symbol" /\ TwoLeaves
    /\ FillOk(1) /\ Len(calls) = 2 /\ calls[2].id = 2

\* C3: walk_frame stops at the first source, in registration order, that
\* answers Some: it returns Some with the walker as that source left it,
\* the sources before it were each invoked once and answered None, and no
\* source after it is invoked.
C3_WalkStopsAtFirstSome ==
    (op = "walk_frame" /\ \E i \in 1..Len(Flat) : WalkSome(Flat[i])) =>
        LET first == Min({i \in 1..Len(Flat) : WalkSome(Flat[i])})
        IN  /\ ret = "Some"
            /\ CallIds = SubSeq(Flat, 1, first)
            /\ \A j \in 1..(first - 1) : calls[j].ret = "None"
            /\ calls[first].ret = "Some"
            /\ walker = [cfa |-> Flat[first], ra |-> Flat[first]]

C3_Witness ==
    /\ op = "walk_frame" /\ TwoLeaves
    /\ WalkSome(1) /\ WalkSome(2) /\ ret = "Some" /\ Len(calls) = 1

\* C4: walk_frame returns None if and only if every registered source
\* answers None, and then every registered source was invoked exactly once.
C4_WalkNoneIffAllNone ==
    op = "walk_frame" =>
        /\ ret \in {"Some", "None"}
        /\ ret = "None" <=> \A i \in 1..Len(Flat) : ~WalkSome(Flat[i])
        /\ ret = "None" => CallIds = Flat

C4_Witness ==
    /\ op = "walk_frame" /\ TwoLeaves
    /\ ret = "None" /\ Len(calls) = 2

\* C5: stats() returns a map whose keys are the union of the sources' keys;
\* a key several sources report carries the whole record of the last of
\* them in registration order, a key one source reports carries its record.
C5_StatsLastWriteWins ==
    op = "stats" =>
        /\ DOMAIN statsRet =
              UNION {DOMAIN LeafStats(Flat[i], stats) : i \in 1..Len(Flat)}
        /\ \A k \in DOMAIN statsRet :
              statsRet[k] = LeafStats(Flat[Max(Reporters(k))], stats)[k]

C5_Witness ==
    /\ op = "stats" /\ TwoLeaves
    /\ \E k1, k2 \in Modules :
          /\ k1 \in DOMAIN LeafStats(1, stats) \cap DOMAIN LeafStats(2, stats)
          /\ LeafStats(1, stats)[k1] # LeafStats(2, stats)[k1]
          /\ k2 \in DOMAIN LeafStats(1, stats) \ DOMAIN LeafStats(2, stats)
          /\ {k1, k2} \subseteq DOMAIN statsRet

\* C6: a combinator no source was added to returns FillSymbolError from
\* fill_symbol, None from walk_frame and an empty map from stats(), and
\* leaves the frame and the walker as they were handed in.
C6_EmptyCombinator ==
    providers = <<>> =>
        /\ op = "fill_symbol" => ret = "Err" /\ frame = FreshFrame /\ calls = <<>>
        /\ op = "walk_frame" => ret = "None" /\ walker = FreshWalker /\ calls = <<>>
        /\ op = "stats" => statsRet = EmptyMap

C6_Witness ==
    providers = <<>> /\ op = "fill_symbol" /\ ret = "Err"

\* C7 as claimed: after fill_symbol each field of the frame holds the value
\* written by the earliest-registered source that wrote that field.
C7_EarliestWriterKept ==
    op = "fill_symbol" =>
        /\ frame.function = FirstWriter("fn")
        /\ frame.source_line = FirstWriter("line")

\* C7 as amended: after fill_symbol each field of the frame holds the value
\* written by the latest-registered source that wrote that field, and a
\* field no source wrote is untouched; a source that writes only line info
\* leaves an earlier source's function info in place.
C7_LatestWriterKept ==
    op = "fill_symbol" =>
        /\ frame.function = LastWriter("fn")
        /\ frame.source_line = LastWriter("line")

C7_Witness ==
    /\ op = "fill_symbol" /\ TwoLeaves
    /\ beh[1].res = "fn" /\ beh[2].res = "fn" /\ frame.function = 2

\* C8: once a stats() call has reported loaded_symbols = true for a module
\* key, every later stats() call reports that key with loaded_symbols = true.
C8_LoadedNeverReset ==
    op = "stats" =>
        \A k \in reported : k \in DOMAIN statsRet /\ statsRet[k].loaded_symbols

C10_NestingTransparent ==
    [][/\ op' = "fill_symbol" =>
            LET c == FillSymbol(FlatNodes(providers), module', beh', Ctx(stats))
            IN  ret' = c.ret /\ calls' = c.calls /\ frame' = c.frame
                /\ stats' = c.stats
       /\ op' = "walk_frame" =>
            LET c == WalkFrame(FlatNodes(providers), module', beh', Ctx(stats))
            IN  ret' = c.ret /\ calls' = c.calls /\ walker' = c.walker
                /\ stats' = c.stats
       /\ op' = "stats" =>
            statsRet' = Stats(FlatNodes(providers), stats)]_vars

C10_Witness ==
    /\ providers = <<Leaf(1), Multi(<<Leaf(2)>>)>>
    /\ op = "fill_symbol" /\ Len(calls) = 2

====
